---- MODULE Spec2Model ----
(***************************************************************************)
(* QueryBuilder of feathers-couchbase (lib/querybuilder/querybuilder.js). *)
(* A builder keeps a log of clause entries (this.query) and the list of   *)
(* bound parameter values (this._values); build() folds the log into a    *)
(* {query, values} pair.  The rendered query string is modelled as the    *)
(* sequence of its lexical tokens.                                        *)
(***************************************************************************)
EXTENDS Integers, Sequences, FiniteSets, TLC

\* Bounds of the model.
MaxClauses == 2   \* primitive calls are made while the log is shorter than this
MaxValues == 4    \* build()/interpret() run while _values stays within this

-----------------------------------------------------------------------------
(* JavaScript values *)

JS(ty, v) == [ty |-> ty, v |-> v, items |-> <<>>]
Null == JS("null", "null")
Undefined == JS("undefined", "undefined")
Num(s) == JS("number", s)
Str(s) == JS("string", s)
Arr(items) == [ty |-> "array", v |-> "", items |-> items]

\* `x == null`
IsNullish(x) == x.ty \in {"null", "undefined"}

\* A bucket name is a string; NoBucket is the constructor's default, null,
\* which a template literal prints as the text null.
NoBucket == "null"

-----------------------------------------------------------------------------
(* Tokens of the rendered text *)

Tok(k, s, n) == [k |-> k, s |-> s, n |-> n]
Kw(s) == Tok("kw", s, 0)          \* a keyword, symbol or separator
Ident(s) == Tok("id", s, 0)       \* an interpolated field or column name
Bucket(s) == Tok("bucket", s, 0)  \* `name`
Ph(n) == Tok("ph", "$", n)        \* the placeholder $n
NumTok(n) == Tok("num", "", n)    \* a number printed into the text
NaNTok == Tok("num", "NaN", 0)

RECURSIVE Join(_, _)
\* Array.prototype.join over pieces that are token sequences
Join(pieces, sep) ==
  IF pieces = <<>> THEN <<>>
  ELSE IF Len(pieces) = 1 THEN pieces[1]
  ELSE pieces[1] \o sep \o Join(Tail(pieces), sep)

RECURSIVE Flatten(_)
\* Array.prototype.join(' ') over the sections: the tokens in sequence
Flatten(pieces) ==
  IF pieces = <<>> THEN <<>> ELSE pieces[1] \o Flatten(Tail(pieces))

MaxOf(S) == CHOOSE x \in S : \A y \in S : y <= x
MinOf(S) == CHOOSE x \in S : \A y \in S : x <= y

-----------------------------------------------------------------------------
(* State *)

VARIABLES
  bucket,    \* this.bucket
  query,     \* this.query: the log of clause entries {type, params}
  _values,   \* this._values
  last       \* the latest call on the builder and what it returned or threw

vars == <<bucket, query, _values, last>>

\* this._add(type, params)
_add(q, type, params) == Append(q, [type |-> type, params |-> params])

\* this._parameterValue(value): the values after the push, and the text $n
_parameterValue(vals, value) ==
  [values |-> Append(vals, value), text |-> Ph(Len(vals) + 1)]

\* this._getQueryValues()
_getQueryValues(vals) == [i \in 1..Len(vals) |-> vals[i]]

\* What a call gave back.  status is "ok" or the class of the error thrown;
\* built tells whether build() ran; query/values are the returned pair.
Result(op, input, status, msg, named, built, q, vals) ==
  [op |-> op, input |-> input, status |-> status, msg |-> msg, named |-> named,
   built |-> built, query |-> q, values |-> vals]

Returned(op, input) == Result(op, input, "ok", "", "", FALSE, <<>>, <<>>)
Threw(op, input, kind, msg) == Result(op, input, kind, msg, "", FALSE, <<>>, <<>>)

-----------------------------------------------------------------------------
(* limit / skip validation *)

\* isNaN(parseFloat(n))
ParseFloatIsNaN(n) ==
  CASE n.ty = "number" -> n.v = "NaN"
    [] n.ty = "string" -> n.v \notin {"10", "3.7", "12abc", "Infinity"}
    [] OTHER -> TRUE

\* isFinite(n): Number(n) is neither NaN nor infinite
IsFinite(n) ==
  CASE n.ty = "number" -> n.v \notin {"NaN", "Infinity"}
    [] n.ty = "string" -> n.v \in {"10", "3.7", ""}
    [] n.ty = "null" -> TRUE
    [] OTHER -> FALSE

\* const isNumeric = (n) => !isNaN(parseFloat(n)) && isFinite(n)
isNumeric(n) == ~ParseFloatIsNaN(n) /\ IsFinite(n)

\* parseInt(n), printed by `LIMIT ${amount}`
parseInt(n) ==
  CASE n.v = "5" -> NumTok(5)
    [] n.v = "10" -> NumTok(10)
    [] n.v = "3.7" -> NumTok(3)
    [] n.v = "12abc" -> NumTok(12)
    [] OTHER -> NaNTok

-----------------------------------------------------------------------------
(* Section renderers *)

\* _select(components, bucket); components is null when no select was recorded
_select(components, bkt) ==
  LET cols == IF components.null THEN <<"*">> ELSE components.cols
      pieces == [i \in 1..Len(cols) |->
                   IF bkt # NoBucket
                   THEN <<Bucket(bkt), Kw("."), Ident(cols[i])>>
                   ELSE <<Ident(cols[i])>>]
  IN <<Kw("SELECT")>> \o Join(pieces, <<Kw(",")>>)

\* _from(bucket)
_from(bkt) == <<Kw("FROM"), Bucket(bkt)>>

ComparisonTypes == {"lt", "lte", "gt", "gte", "ne", "eq", "in", "nin"}

\* the switch of _where: the symbol printed for a comparison type
Symbol(type) ==
  CASE type = "lt" -> Kw("<")
    [] type = "lte" -> Kw("<=")
    [] type = "gt" -> Kw(">")
    [] type = "gte" -> Kw(">=")
    [] type = "ne" -> Kw("!=")
    [] type = "eq" -> Kw("=")
    [] type = "in" -> Kw("IN")
    [] type = "nin" -> Kw("NOT IN")

\* a version of the test that takes every falsy value for null
WhereValueFalsy(vals, value) ==
  IF IsNullish(value) \/ value \in {Num("0"), Str("")}
  THEN [values |-> vals, text |-> Kw("NULL")]
  ELSE _parameterValue(vals, value)

\* _where, the head of the loop body: NULL, or a fresh placeholder
WhereValue(vals, value) ==
  IF IsNullish(value)
  THEN [values |-> vals, text |-> Kw("NULL")]
  ELSE _parameterValue(vals, value)

RECURSIVE WhereLoop(_, _, _)
\* _where, the loop and the return: the value is bound before the switch on
\* the type, so the default branch throws with the value already pushed
WhereLoop(components, vals, statements) ==
  IF components = <<>>
  THEN [ok |-> TRUE, values |-> vals,
        text |-> <<Kw("WHERE")>> \o Join(statements, <<Kw("AND")>>)]
  ELSE LET c == Head(components)
           p == WhereValue(vals, c.params.value)
       IN IF c.type \in ComparisonTypes
          THEN WhereLoop(Tail(components), p.values,
                         Append(statements,
                                <<Ident(c.params.field), Symbol(c.type), p.text>>))
          ELSE [ok |-> FALSE, values |-> p.values, text |-> <<>>]

\* _where(components) with operation = 'AND'
_where(components, vals) == WhereLoop(components, vals, <<>>)

RECURSIVE SortFields(_, _, _, _)
\* fields.map(field => [this._parameterValue(field), order].join(' '))
SortFields(fields, order, vals, pieces) ==
  IF fields = <<>>
  THEN [values |-> vals, pieces |-> pieces]
  ELSE LET p == _parameterValue(vals, Head(fields))
       IN SortFields(Tail(fields), order, p.values,
                     Append(pieces, <<p.text, Kw(order)>>))

RECURSIVE SortLoop(_, _, _)
\* _sort, the loop over the groups and the return
SortLoop(groups, vals, statements) ==
  IF groups = <<>>
  THEN [values |-> vals,
        text |-> <<Kw("ORDER BY")>> \o Join(statements, <<Kw(",")>>)]
  ELSE LET g == Head(groups)
           r == SortFields(g.fields, g.order, vals, <<>>)
       IN SortLoop(Tail(groups), r.values,
                   Append(statements, Join(r.pieces, <<Kw(",")>>)))

\* _sort(groups)
_sort(groups, vals) == SortLoop(groups, vals, <<>>)

\* _limit(amount), _skip(amount)
_limit(amount) == <<Kw("LIMIT"), amount>>
_skip(amount) == <<Kw("OFFSET"), amount>>

-----------------------------------------------------------------------------
(* build() *)

Indices(q, types) == {i \in DOMAIN q : q[i].type \in types}

\* the types build()'s switch collects into $where
WhereTypes == ComparisonTypes \cup {"or"}
IsWhereEntry(c) == c.type \in WhereTypes
IsSortEntry(c) == c.type = "sort"

\* if (this.bucket)
Truthy(bkt) == bkt # NoBucket /\ bkt # ""

\* the FROM section of build()
FromSection(bkt, from) == IF Truthy(bkt) THEN <<_from(from)>> ELSE <<>>

\* a version of the assembly that pushes LIMIT before ORDER BY
AssembleLimitFirst(selectS, fromS, whereS, rawS, sortS, limitS, skipS) ==
  Flatten(selectS \o fromS \o whereS \o rawS \o limitS \o sortS \o skipS)

\* $query.push(...) section by section, then $query.join(' ')
Assemble(selectS, fromS, whereS, rawS, sortS, limitS, skipS) ==
  Flatten(selectS \o fromS \o whereS \o rawS \o sortS \o limitS \o skipS)

\* the entries build()'s switch collects into $where and $sort
WhereEntries(q) == SelectSeq(q, IsWhereEntry)
SortGroups(q) ==
  LET sorts == SelectSeq(q, IsSortEntry)
  IN [i \in 1..Len(sorts) |-> sorts[i].params]

\* the limit and skip entries whose amount the switch rejects
BadAmounts(q) ==
  {i \in Indices(q, {"limit", "skip"}) : ~isNumeric(q[i].params.amount)}

\* build() past the _where and _sort calls: w and s are what they returned
BuildSections(bkt, q, w, s) ==
  LET froms == Indices(q, {"from"})
      selects == Indices(q, {"select"})
      raws == Indices(q, {"rawWhere"})
      limits == Indices(q, {"limit"})
      skips == Indices(q, {"skip"})
      from == IF froms = {} THEN bkt ELSE q[MaxOf(froms)].params.name
      select == IF selects = {} THEN [null |-> TRUE, cols |-> <<>>]
                ELSE [null |-> FALSE, cols |-> q[MaxOf(selects)].params.cols]
  IN [status |-> "ok", msg |-> "",
      query |->
        Assemble(
          <<_select(select, from)>>,
          FromSection(bkt, from),
          IF WhereEntries(q) # <<>> THEN <<w.text>> ELSE <<>>,
          IF raws # {} THEN << <<Kw("WHERE")>> \o q[MaxOf(raws)].params.text >> ELSE <<>>,
          IF SortGroups(q) # <<>> THEN <<s.text>> ELSE <<>>,
          IF limits # {} THEN <<_limit(parseInt(q[MaxOf(limits)].params.amount))>> ELSE <<>>,
          IF skips # {} THEN <<_skip(parseInt(q[MaxOf(skips)].params.amount))>> ELSE <<>>),
      values |-> _getQueryValues(s.values),
      _values |-> s.values]

\* build() past the _where call: w is what it returned, or that it threw
BuildSort(bkt, q, w) ==
  IF ~w.ok
  THEN [status |-> "Error", msg |-> "Not implemented",
        query |-> <<>>, values |-> <<>>, _values |-> w.values]
  ELSE BuildSections(bkt, q, w,
                     IF SortGroups(q) # <<>> THEN _sort(SortGroups(q), w.values)
                     ELSE [values |-> w.values, text |-> <<>>])

\* build(): [status, msg, query, values] and the builder's _values afterwards
build(bkt, q, vals) ==
  IF BadAmounts(q) # {}
  THEN [status |-> "QueryError",
        msg |-> IF q[MinOf(BadAmounts(q))].type = "limit"
                THEN "Limit parameter must be numeric"
                ELSE "Skip parameter must be numeric",
        query |-> <<>>, values |-> <<>>, _values |-> vals]
  ELSE BuildSort(bkt, q,
                 IF WhereEntries(q) # <<>> THEN _where(WhereEntries(q), vals)
                 ELSE [ok |-> TRUE, values |-> vals, text |-> <<>>])

-----------------------------------------------------------------------------
(* Inputs of the calls *)

Buckets == {NoBucket, "b"}
ColumnLists == {<<"name", "age">>}
FromNames == {"users"}
Amounts == {Null, Undefined, Num("5"), Str("abc")}
SortArgs ==
  {<<Str("name"), Undefined>>, <<Arr(<<Str("name"), Str("age")>>), Str("desc")>>,
   <<Null, Undefined>>, <<Str("name"), Str("up")>>, <<Str("name"), Null>>}
WhereArgs ==
  {<<"a", "eq", Null>>, <<"b", "lt", Num("0")>>,
   <<"a", "like", Str("x")>>, <<"a", "or", Num("1")>>}
RawTexts == {<<Ident("x"), Kw("IS MISSING")>>}

-----------------------------------------------------------------------------
(* The calls *)

Init ==
  /\ bucket \in Buckets
  /\ query = <<>>
  /\ _values = <<>>
  /\ last = Returned("constructor", [bucket |-> bucket])

CanCall == Len(query) < MaxClauses

\* select(...selected)
Select ==
  \E selected \in ColumnLists :
    /\ CanCall
    /\ query' = _add(query, "select", [cols |-> selected])
    /\ last' = Returned("select", [cols |-> selected])
    /\ UNCHANGED <<bucket, _values>>

\* from(name)
From ==
  \E name \in FromNames :
    /\ CanCall
    /\ query' = _add(query, "from", [name |-> name])
    /\ last' = Returned("from", [name |-> name])
    /\ UNCHANGED <<bucket, _values>>

\* a version of the guard written amount === null
AmountStrictNull(op) ==
  \E amount \in Amounts :
    /\ CanCall
    /\ IF amount.ty = "null"
       THEN /\ last' = Threw(op, [amount |-> amount], "QueryError",
                             "Amount must be specified")
            /\ UNCHANGED query
       ELSE /\ query' = _add(query, op, [amount |-> amount])
            /\ last' = Returned(op, [amount |-> amount])
    /\ UNCHANGED <<bucket, _values>>

\* limit(amount) and skip(amount)
Amount(op) ==
  \E amount \in Amounts :
    /\ CanCall
    /\ IF IsNullish(amount)
       THEN /\ last' = Threw(op, [amount |-> amount], "QueryError",
                             "Amount must be specified")
            /\ UNCHANGED query
       ELSE /\ query' = _add(query, op, [amount |-> amount])
            /\ last' = Returned(op, [amount |-> amount])
    /\ UNCHANGED <<bucket, _values>>

Limit == Amount("limit")
Skip == Amount("skip")

\* String.prototype.toUpperCase on the order strings of the model
toUpperCase(s) ==
  CASE s \in {"asc", "ASC"} -> "ASC"
    [] s \in {"desc", "Desc", "DESC"} -> "DESC"
    [] s = "up" -> "UP"
    [] OTHER -> s

\* sort(fields, order = 'ASC'): what it throws, or the entry it records
sort(fields, order) ==
  LET ord == IF order.ty = "undefined" THEN Str("ASC") ELSE order
      flds == IF fields.ty = "string" THEN <<fields>> ELSE fields.items
  IN IF IsNullish(fields)
     THEN [status |-> "QueryError",
           msg |-> "Required to have at least one field to sort"]
     ELSE IF ord.ty # "string"
     THEN [status |-> "TypeError", msg |-> "Cannot read property toUpperCase of null"]
     ELSE IF toUpperCase(ord.v) \notin {"ASC", "DESC"}
     THEN [status |-> "QueryError", msg |-> "Order must be ASC or DESC"]
     ELSE [status |-> "ok", msg |-> "",
           params |-> [fields |-> flds, order |-> toUpperCase(ord.v)]]

Sort ==
  \E a \in SortArgs :
    LET r == sort(a[1], a[2])
        input == [fields |-> a[1], order |-> a[2]]
    IN /\ CanCall
       /\ IF r.status = "ok"
          THEN /\ query' = _add(query, "sort", r.params)
               /\ last' = Returned("sort", input)
          ELSE /\ last' = Threw("sort", input, r.status, r.msg)
               /\ UNCHANGED query
       /\ UNCHANGED <<bucket, _values>>

\* where(field, operation, value)
Where ==
  \E a \in WhereArgs :
    /\ CanCall
    /\ query' = _add(query, a[2], [field |-> a[1], value |-> a[3]])
    /\ last' = Returned("where", [field |-> a[1], operation |-> a[2], value |-> a[3]])
    /\ UNCHANGED <<bucket, _values>>

\* rawWhere(value)
RawWhere ==
  \E text \in RawTexts :
    /\ CanCall
    /\ query' = _add(query, "rawWhere", [text |-> text])
    /\ last' = Returned("rawWhere", [text |-> text])
    /\ UNCHANGED <<bucket, _values>>

\* build()
Build ==
  \E r \in {build(bucket, query, _values)} :
    /\ Len(r._values) <= MaxValues
    /\ _values' = r._values
    /\ last' = Result("build", [none |-> TRUE], r.status, r.msg, "", TRUE,
                      r.query, r.values)
    /\ UNCHANGED <<bucket, query>>

-----------------------------------------------------------------------------
(* interpret() *)

\* Directive nodes as QueryInterpreter returns them: a comparison carries
\* directive.type, field and value; an and/or directive carries the array of
\* its parts as value; a bare array of parts is a node of type "array".
Cmp(type, field, value) == [type |-> type, field |-> field, value |-> value]
Parts(items) == [type |-> "array", items |-> items]
Logical(type, items) == [type |-> type, value |-> Parts(items)]
Shape(type, value) == [type |-> type, value |-> value]

\* toString() of a comparison directive, with its value already replaced by
\* the placeholder text (or left null)
DirectiveToString(part, valueText) ==
  <<Ident(part.field), Symbol(part.type), valueText>>

\* stringify(part) of _buildWhere
stringify(part, vals) ==
  LET p == IF ~IsNullish(part.value)
           THEN _parameterValue(vals, part.value)
           ELSE [values |-> vals, text |-> Kw("NULL")]
  IN [values |-> p.values, text |-> DirectiveToString(part, p.text)]

RECURSIVE StringifyAll(_, _, _)
\* for (let subpart of part) statements.push(stringify(subpart))
StringifyAll(parts, vals, statements) ==
  IF parts = <<>>
  THEN [values |-> vals, statements |-> statements]
  ELSE LET r == stringify(Head(parts), vals)
       IN StringifyAll(Tail(parts), r.values, Append(statements, r.text))

\* part.directive.type.toUpperCase() of an and/or directive
JoinWord(type) == IF type = "or" THEN "OR" ELSE "AND"

\* '(' + text + ')' pushed onto the statements
Parenthesized(statements, r) ==
  [values |-> r.values,
   statements |-> Append(statements, <<Kw("(")>> \o r.text \o <<Kw(")")>>)]

\* text pushed onto the statements
Pushed(statements, r) ==
  [values |-> r.values, statements |-> Append(statements, r.text)]

\* statements.join(` ${comparator} `)
Joined(r, comparator) ==
  [values |-> r.values, text |-> Join(r.statements, <<Kw(comparator)>>)]

RECURSIVE _buildWhere(_, _, _)
RECURSIVE BuildParts(_, _)

\* the loop of _buildWhere over the parts of an array; acc holds the values
\* and the statements so far
BuildParts(parts, acc) ==
  IF parts = <<>>
  THEN acc
  ELSE IF Head(parts).type = "array"
  THEN BuildParts(Tail(parts),
                  StringifyAll(Head(parts).items, acc.values, acc.statements))
  ELSE IF Head(parts).type \in {"and", "or"}
  THEN BuildParts(Tail(parts),
                  Parenthesized(acc.statements,
                                _buildWhere(Head(parts).value,
                                            JoinWord(Head(parts).type), acc.values)))
  ELSE BuildParts(Tail(parts),
                  Pushed(acc.statements, stringify(Head(parts), acc.values)))

\* _buildWhere(sub, comparator)
_buildWhere(sub, comparator, vals) ==
  IF sub.type # "array"
  THEN stringify(sub, vals)
  ELSE Joined(BuildParts(sub.items, [values |-> vals, statements |-> <<>>]),
              comparator)

\* value > 0 of a sort directive entry
GreaterThanZero(x) == x.ty = "number" /\ x.v \in {"1", "5", "10", "3.7"}

RECURSIVE ReplaySort(_, _)
\* for (let { field, value } of component.value) this.sort(field, ...)
ReplaySort(entries, q) ==
  IF entries = <<>>
  THEN [status |-> "ok", msg |-> "", query |-> q]
  ELSE LET e == Head(entries)
           r == sort(e.field, IF GreaterThanZero(e.value) THEN Str("ASC") ELSE Str("DESC"))
       IN IF r.status = "ok"
          THEN ReplaySort(Tail(entries), _add(q, "sort", r.params))
          ELSE [status |-> r.status, msg |-> r.msg, query |-> q]

\* a version of the case labels that forgets 'in'
RootComparisonTypesWithoutIn == {"lt", "lte", "gt", "gte", "ne", "nin", "eq"}

\* the case labels of interpret()'s switch that throw
RootComparisonTypes == {"lt", "lte", "gt", "gte", "ne", "in", "nin", "eq"}

\* this.rawWhere(text) of the text _buildWhere returned
ReplayedWhere(q, r) ==
  [status |-> "ok", msg |-> "", named |-> "",
   query |-> _add(q, "rawWhere", [text |-> r.text]), values |-> r.values]

\* this.sort(...) of every entry of a sort directive
ReplayedSort(vals, r) ==
  [status |-> r.status, msg |-> r.msg, named |-> "", query |-> r.query,
   values |-> vals]

\* the body of interpret()'s loop: one directive replayed onto the builder
ReplayOne(c, q, vals) ==
  CASE c.type = "select" ->
         [status |-> "ok", msg |-> "", named |-> "",
          query |-> _add(q, "select", [cols |-> c.value]), values |-> vals]
    [] c.type \in {"skip", "limit"} ->
         IF IsNullish(c.value)
         THEN [status |-> "QueryError", msg |-> "Amount must be specified",
               named |-> "", query |-> q, values |-> vals]
         ELSE [status |-> "ok", msg |-> "", named |-> "",
               query |-> _add(q, c.type, [amount |-> c.value]), values |-> vals]
    [] c.type = "sort" -> ReplayedSort(vals, ReplaySort(c.value, q))
    [] c.type = "and" -> ReplayedWhere(q, _buildWhere(c.value, "AND", vals))
    [] c.type \in RootComparisonTypes ->
         [status |-> "QueryError", msg |-> "Found sub directive at root query",
          named |-> c.type, query |-> q, values |-> vals]
    [] OTHER ->
         [status |-> "ok", msg |-> "", named |-> "", query |-> q, values |-> vals]

RECURSIVE Replay(_, _)
\* the loop of interpret(): each directive replayed onto the builder until
\* one throws; r holds the log and the values so far
Replay(components, r) ==
  IF components = <<>> \/ r.status # "ok"
  THEN r
  ELSE Replay(Tail(components), ReplayOne(Head(components), r.query, r.values))

\* interpret() past the loop, which threw or left the log for build()
InterpretBuilt(r, b) ==
  IF r.status # "ok"
  THEN [status |-> r.status, msg |-> r.msg, named |-> r.named, built |-> FALSE,
        result |-> <<>>, values |-> <<>>, query |-> r.query, _values |-> r.values]
  ELSE [status |-> b.status, msg |-> b.msg, named |-> "", built |-> TRUE,
        result |-> b.query, values |-> b.values, query |-> r.query,
        _values |-> b._values]

\* interpret() past the loop: return this.build()
InterpretReplayed(bkt, r) == InterpretBuilt(r, build(bkt, r.query, r.values))

\* interpret(query), from the directives QueryInterpreter(query) returned
interpret(bkt, interpretedQuery, q, vals) ==
  InterpretReplayed(bkt, Replay(interpretedQuery,
                                [status |-> "ok", msg |-> "", named |-> "",
                                 query |-> q, values |-> vals]))

\* Directive sequences QueryInterpreter returns
QOne == <<Logical("and", <<Cmp("eq", "one", Num("1"))>>)>>
QOrObjects ==
  <<Logical("and",
      <<Logical("or", <<Parts(<<Cmp("eq", "a", Num("1")), Cmp("eq", "b", Null)>>),
                        Parts(<<Cmp("eq", "c", Num("3"))>>)>>)>>)>>
QNested ==
  <<Logical("and",
      <<Cmp("lt", "top", Num("1")),
        Logical("or", <<Cmp("eq", "a", Num("0")),
                        Logical("and", <<Cmp("gt", "b", Num("2")),
                                         Cmp("nin", "c", Arr(<<Num("1")>>))>>)>>)>>)>>
QAndObjects ==
  <<Logical("and", <<Parts(<<Cmp("eq", "a", Num("1")), Cmp("ne", "b", Str("x"))>>),
                     Cmp("lte", "c", Num("3"))>>)>>
QShaped ==
  <<Shape("skip", Str("10")), Logical("and", <<Cmp("eq", "one", Num("1"))>>),
    Shape("limit", Num("5")),
    Shape("sort", <<[field |-> Str("name"), value |-> Num("1")],
                    [field |-> Str("age"), value |-> Num("-1")]>>),
    Shape("select", <<"name">>)>>
QSortOnly == <<Shape("sort", <<[field |-> Str("name"), value |-> Num("1")]>>)>>
QBareLt == <<Cmp("lt", "", Num("5"))>>
QSortThenIn ==
  <<Shape("sort", <<[field |-> Str("name"), value |-> Num("-1")]>>),
    Cmp("in", "", Arr(<<Num("1")>>))>>
QLimitNullThenGt == <<Shape("limit", Null), Cmp("gt", "", Num("5"))>>

InterpretedQueries ==
  {QOne, QOrObjects, QNested, QAndObjects, QShaped, QSortOnly, QBareLt,
   QSortThenIn, QLimitNullThenGt}

\* interpret(query), the query being one QueryInterpreter turns into one of
\* the given directive sequences
InterpretOneOf(interpreted) ==
  \E interpretedQuery \in interpreted :
    \E r \in {interpret(bucket, interpretedQuery, query, _values)} :
      /\ CanCall
      /\ Len(r._values) <= MaxValues
      /\ query' = r.query
      /\ _values' = r._values
      /\ last' = Result("interpret", [directives |-> interpretedQuery], r.status,
                        r.msg, r.named, r.built, r.result, r.values)
      /\ UNCHANGED bucket

Interpret == InterpretOneOf(InterpretedQueries)

Next ==
  \/ Select
  \/ From
  \/ Limit
  \/ Skip
  \/ Sort
  \/ Where
  \/ RawWhere
  \/ Build
  \/ Interpret

Spec == Init /\ [][Next]_vars

-----------------------------------------------------------------------------
(* Rendering of comparisons: builders that hold where() clauses of every   *)
(* comparison operator, built and interpreted                              *)

ComparisonValues == {Null, Undefined, Num("0")}

ComparisonEntries ==
  {[type |-> t, params |-> [field |-> "f", value |-> v]] :
     t \in ComparisonTypes, v \in {Null, Num("0")}}

\* the logs of 1..n where() calls
RECURSIVE ComparisonLogs(_)
ComparisonLogs(n) ==
  IF n = 0 THEN {<<>>}
  ELSE LET shorter == ComparisonLogs(n - 1)
       IN shorter \cup {Append(q, c) : q \in shorter, c \in ComparisonEntries}

InitWhere ==
  /\ bucket = "b"
  /\ query \in ComparisonLogs(MaxClauses) \ {<<>>}
  /\ _values = <<>>
  /\ last = Returned("where", [field |-> query[Len(query)].params.field,
                               operation |-> query[Len(query)].type,
                               value |-> query[Len(query)].params.value])

\* interpret({g: value}) and interpret({g: {$nin: value}})
InterpretComparison ==
  InterpretOneOf({<<Logical("and", <<Cmp(t, "g", v)>>)>> :
                    t \in {"eq", "nin"}, v \in ComparisonValues})

NextWhere ==
  \/ Build
  \/ InterpretComparison

SpecWhere == InitWhere /\ [][NextWhere]_vars

-----------------------------------------------------------------------------
(* Properties *)

\* the latest call ran build() and build() returned a {query, values} pair
IsPair(r) == r.status = "ok" /\ r.built

\* the placeholders of a rendered text, in the order they occur
Placeholders(q) == SelectSeq(q, LAMBDA t : t.k = "ph")

\* the entries of the log recorded by where(field, operation, value)
IsWhereCall(c) == "field" \in DOMAIN c.params

\* C1: whenever build() returns, the placeholders of query are $1..$n in
\* ascending order, each once, with n the length of values.
C1_PlaceholdersMatchValues ==
  IsPair(last) =>
    LET ph == Placeholders(last.query)
    IN /\ Len(ph) = Len(last.values)
       /\ \A i \in DOMAIN ph : ph[i].n = i

\* C2: a build() that directly follows a call that returned build()'s pair
\* returns the same query and the same values.
C2_BuildIdempotent ==
  [][(IsPair(last) /\ last'.op = "build")
       => (/\ last'.status = "ok"
           /\ last'.query = last.query
           /\ last'.values = last.values)]_vars

\* C3: no build() returns a pair from a builder whose log holds a where()
\* entry with an operation outside the comparison set.
C3_UnsupportedOperatorNeverBuilt ==
  IsPair(last) =>
    \A i \in DOMAIN query :
      IsWhereCall(query[i]) => query[i].type \in ComparisonTypes

\* the order arguments sort() is documented to accept: omitted, or ASC/DESC
\* in any letter case
AcceptedOrder(o) ==
  \/ o.ty = "undefined"
  \/ o.ty = "string" /\ o.v \in {"ASC", "asc", "Asc", "DESC", "desc", "Desc"}

\* ASC or DESC, upper-cased, for an accepted order argument
UpperCased(o) ==
  IF o.ty = "undefined" \/ o.v \in {"ASC", "asc", "Asc"} THEN "ASC" ELSE "DESC"

\* the fields argument as the list sort() records
FieldList(f) == IF f.ty = "string" THEN <<f>> ELSE f.items

\* C5: sort(fields, order) throws a QueryError and records nothing when
\* fields is null or order is not ASC/DESC in some letter case; otherwise it
\* records one sort group with the order upper-cased (ASC when omitted), and
\* a build() that follows at once renders every field of the group as a
\* placeholder followed by the order, with the field name as its value.
C5_SortValidation ==
  [][/\ last'.op = "sort" =>
          LET f == last'.input.fields
              o == last'.input.order
          IN IF IsNullish(f) \/ ~AcceptedOrder(o)
             THEN last'.status = "QueryError" /\ query' = query
             ELSE /\ last'.status = "ok"
                  /\ query' = Append(query,
                                     [type |-> "sort",
                                      params |-> [fields |-> FieldList(f),
                                                  order |-> UpperCased(o)]])
     /\ (last.op = "sort" /\ last.status = "ok" /\ last'.op = "build"
           /\ IsPair(last')) =>
          \A j \in DOMAIN FieldList(last.input.fields) :
            \E k \in DOMAIN last'.values, i \in DOMAIN last'.query :
              /\ last'.values[k] = FieldList(last.input.fields)[j]
              /\ last'.query[i] = Ph(k)
              /\ i < Len(last'.query)
              /\ last'.query[i + 1] = Kw(UpperCased(last.input.order))]_vars

\* the bucket in effect for a build: the name of the latest from(), else the
\* bucket of the constructor
BucketInEffect ==
  LET froms == {i \in DOMAIN query : query[i].type = "from"}
  IN IF froms = {} THEN bucket ELSE query[MaxOf(froms)].params.name

\* the keywords that open the sections of a rendered query
IsSectionKeyword(t) ==
  t.k = "kw" /\ t.s \in {"SELECT", "FROM", "WHERE", "ORDER BY", "LIMIT", "OFFSET"}

\* the tokens of the section that position p opens, without its keyword
SectionAt(q, p) ==
  LET later == {j \in DOMAIN q : j > p /\ IsSectionKeyword(q[j])}
  IN SubSeq(q, p + 1, IF later = {} THEN Len(q) ELSE MinOf(later) - 1)

\* C7: a returned query holds a FROM section exactly when a bucket is in
\* effect, the section names that bucket, and every SELECT column is
\* qualified with it.
C7_FromOverridesBucket ==
  IsPair(last) =>
    LET q == last.query
        froms == {i \in DOMAIN q : q[i] = Kw("FROM")}
        cols == SectionAt(q, 1)
    IN /\ froms # {} <=> BucketInEffect # NoBucket
       /\ \A i \in froms : SectionAt(q, i) = <<Bucket(BucketInEffect)>>
       /\ BucketInEffect # NoBucket =>
            \A i \in DOMAIN cols :
              cols[i].k = "id" =>
                /\ i > 2
                /\ cols[i - 2] = Bucket(BucketInEffect)
                /\ cols[i - 1] = Kw(".")

RECURSIVE ExpectedJoins(_, _)
\* the join words a logical group is documented to render, left to right:
\* its own comparator between its members, AND inside a bare array member,
\* the directive's own word inside an and/or member
ExpectedJoins(parts, comparator) ==
  LET member(p) ==
        IF p.type = "array" THEN [i \in 1..(Len(p.items) - 1) |-> "AND"]
        ELSE IF p.type \in {"and", "or"}
        THEN ExpectedJoins(p.value.items, IF p.type = "or" THEN "OR" ELSE "AND")
        ELSE <<>>
  IN IF parts = <<>> THEN <<>>
     ELSE IF Len(parts) = 1 THEN member(parts[1])
     ELSE member(parts[1]) \o <<comparator>> \o ExpectedJoins(Tail(parts), comparator)

RECURSIVE CountLogical(_)
\* the number of and/or directives nested in a list of parts
CountLogical(parts) ==
  IF parts = <<>> THEN 0
  ELSE (IF Head(parts).type \in {"and", "or"}
        THEN 1 + CountLogical(Head(parts).value.items) ELSE 0)
       + CountLogical(Tail(parts))

\* C10: the text interpret() renders for a root group has one parenthesized
\* sub-expression per nested and/or directive and, left to right, the join
\* words the groups call for, AND between the members of a bare array.
C10_LogicalGroupJoins ==
  (last.op = "interpret" /\ last.status = "ok") =>
    LET ds == last.input.directives
        ands == {i \in DOMAIN ds : ds[i].type = "and"}
        raws == {i \in DOMAIN query : query[i].type = "rawWhere"}
        text == query[MaxOf(raws)].params.text
        joins == SelectSeq(text, LAMBDA t : t \in {Kw("AND"), Kw("OR")})
        root == ds[MaxOf(ands)].value.items
    IN ands # {} =>
         /\ [i \in DOMAIN joins |-> joins[i].s] = ExpectedJoins(root, "AND")
         /\ Len(SelectSeq(text, LAMBDA t : t = Kw("("))) = CountLogical(root)
         /\ Len(SelectSeq(text, LAMBDA t : t = Kw(")"))) = CountLogical(root)

\* amounts that are present but not numeric
NonNumericAmounts ==
  {Str("abc"), Str("12abc"), Str(""), Num("NaN"), Num("Infinity")}

\* C4: limit(n)/skip(n) throw a QueryError and record nothing when n is null
\* or absent, and otherwise record the clause; once the log holds a limit or
\* skip whose amount is present but not numeric, build() throws a QueryError
\* and returns no pair, and so would a build() after recording any such
\* amount from the current state.
C4_AmountValidation ==
  /\ [][/\ last'.op \in {"limit", "skip"} =>
             LET n == last'.input.amount
             IN IF IsNullish(n)
                THEN last'.status = "QueryError" /\ query' = query
                ELSE /\ last'.status = "ok"
                     /\ query' = Append(query, [type |-> last'.op,
                                                params |-> [amount |-> n]])
        /\ (/\ last'.built
            /\ \E i \in DOMAIN query' :
                 /\ query'[i].type \in {"limit", "skip"}
                 /\ query'[i].params.amount \in NonNumericAmounts)
             => (last'.status = "QueryError" /\ last'.query = <<>>)]_vars
  /\ [](\A n \in NonNumericAmounts, op \in {"limit", "skip"} :
          build(bucket, _add(query, op, [amount |-> n]), _values).status
            = "QueryError")

\* a limit("abc") or skip("abc") was recorded and the build() after it threw
C4_Witness ==
  /\ last.op = "build"
  /\ last.status = "QueryError"
  /\ \E i \in DOMAIN query :
       query[i].type \in {"limit", "skip"} /\ query[i].params.amount = Str("abc")

\* the symbol documented for each comparison operator
DocumentedSymbol(type) ==
  CASE type = "eq" -> "=" [] type = "ne" -> "!=" [] type = "lt" -> "<"
    [] type = "lte" -> "<=" [] type = "gt" -> ">" [] type = "gte" -> ">="
    [] type = "in" -> "IN" [] type = "nin" -> "NOT IN"

DocumentedComparisons == {"eq", "ne", "lt", "lte", "gt", "gte", "in", "nin"}

\* the comparisons of the log that build() renders
RenderedComparisons(q) == SelectSeq(q, LAMBDA c : c.type \in DocumentedComparisons)

RECURSIVE DocumentedRendering(_, _)
\* the comparisons as documented, the parameter list holding n values so
\* far: field symbol NULL for a null value, field symbol $k with a fresh
\* slot k for any other
DocumentedRendering(cs, n) ==
  IF cs = <<>> THEN <<>>
  ELSE LET c == Head(cs)
           null == c.params.value \in {Null, Undefined}
       IN << <<Ident(c.params.field), Kw(DocumentedSymbol(c.type)),
               IF null THEN Kw("NULL") ELSE Ph(n + 1)>> >>
          \o DocumentedRendering(Tail(cs), IF null THEN n ELSE n + 1)

\* the values of the comparisons that are not null, in order
BoundValues(cs) ==
  LET bound == SelectSeq(cs, LAMBDA c : c.params.value \notin {Null, Undefined})
  IN [i \in DOMAIN bound |-> bound[i].params.value]

\* C6: a comparison with a null value renders as field symbol NULL and takes
\* no parameter slot; one with any other value appends exactly that value
\* and renders as field symbol $n, n its slot.  This holds of the
\* comparisons build() renders from where() clauses and of the comparison
\* interpret() renders into its raw WHERE text.
C6_NullTakesNoSlot ==
  [][(last'.built /\ IsPair(last')) =>
       LET raw == IF last'.op = "interpret"
                  THEN <<[type |-> last'.input.directives[1].value.items[1].type,
                          params |-> last'.input.directives[1].value.items[1]]>>
                  ELSE <<>>
           cs == RenderedComparisons(query)
           n == Len(_values) + Len(BoundValues(raw))
           where == {i \in DOMAIN last'.query : last'.query[i] = Kw("WHERE")}
       IN /\ raw # <<>> =>
               /\ query'[Len(query')].type = "rawWhere"
               /\ query'[Len(query')].params.text
                    = DocumentedRendering(raw, Len(_values))[1]
          /\ SectionAt(last'.query, MinOf(where))
               = Join(DocumentedRendering(cs, n), <<Kw("AND")>>)
          /\ _values' = _values \o BoundValues(raw) \o BoundValues(cs)]_vars

\* a build() returned a query with a NULL comparison and a bound one
C6_Witness ==
  /\ last.op = "build" /\ IsPair(last)
  /\ \E i, j \in DOMAIN last.query :
       /\ last.query[i] = Kw("NULL")
       /\ last.query[j].k = "ph"
  /\ \E i, j \in DOMAIN query :
       /\ query[i].type \in ComparisonTypes /\ IsNullish(query[i].params.value)
       /\ query[j].type \in ComparisonTypes /\ ~IsNullish(query[j].params.value)

\* C8: a returned query opens with SELECT and holds its sections in the
\* order SELECT, FROM, WHERE of the comparisons, WHERE of the raw clause,
\* ORDER BY, LIMIT, OFFSET, whatever the order of the calls: a section other
\* than SELECT and FROM is there exactly when the log holds its clause, FROM
\* only in second place and only when a bucket was bound; the columns are *
\* when no select was recorded; the first WHERE holds the comparisons in the
\* order of their where() calls, joined by AND; the raw WHERE holds the text
\* of the raw clause.
C8_SectionsInFixedOrder ==
  IsPair(last) =>
    LET q == last.query
        kws == SelectSeq(q, IsSectionKeyword)
        others == SelectSeq(kws, LAMBDA t : t # Kw("FROM"))
        Has(type) == \E i \in DOMAIN query : query[i].type = type
        cs == RenderedComparisons(query)
        raws == {i \in DOMAIN query : query[i].type = "rawWhere"}
        wheres == {i \in DOMAIN q : q[i] = Kw("WHERE")}
        documented ==
          <<"SELECT">>
          \o (IF cs # <<>> THEN <<"WHERE">> ELSE <<>>)
          \o (IF Has("rawWhere") THEN <<"WHERE">> ELSE <<>>)
          \o (IF Has("sort") THEN <<"ORDER BY">> ELSE <<>>)
          \o (IF Has("limit") THEN <<"LIMIT">> ELSE <<>>)
          \o (IF Has("skip") THEN <<"OFFSET">> ELSE <<>>)
    IN /\ q[1] = Kw("SELECT")
       /\ [i \in DOMAIN others |-> others[i].s] = documented
       /\ \A i \in DOMAIN kws :
            kws[i] = Kw("FROM") => (i = 2 /\ (bucket # NoBucket \/ Has("from")))
       /\ ~Has("select") =>
            SelectSeq(SectionAt(q, 1), LAMBDA t : t.k = "id") = <<Ident("*")>>
       /\ cs # <<>> =>
            SelectSeq(SectionAt(q, MinOf(wheres)),
                      LAMBDA t : t.k # "ph" /\ t # Kw("NULL"))
              = Join([i \in DOMAIN cs |->
                        <<Ident(cs[i].params.field), Kw(DocumentedSymbol(cs[i].type))>>],
                     <<Kw("AND")>>)
       /\ raws # {} =>
            SectionAt(q, MaxOf(wheres)) = query[MaxOf(raws)].params.text

\* a query with all seven sections was returned, from a log in which the
\* skip, the raw clause, the limit and the sorts were recorded before the
\* select
C8_Witness ==
  /\ IsPair(last)
  /\ LET kws == SelectSeq(last.query, IsSectionKeyword)
     IN [i \in DOMAIN kws |-> kws[i].s]
          = <<"SELECT", "FROM", "WHERE", "WHERE", "ORDER BY", "LIMIT", "OFFSET">>
  /\ \E i, j \in DOMAIN query :
       i < j /\ query[i].type = "skip" /\ query[j].type = "select"

\* the directive sequence holds a bare comparison at the root
HasBareComparison(ds) == \E i \in DOMAIN ds : ds[i].type \in DocumentedComparisons
FirstBareComparison(ds) ==
  MinOf({i \in DOMAIN ds : ds[i].type \in DocumentedComparisons})

\* a directive before the first bare comparison is one its own replay
\* rejects: a skip or limit without amount, a sort entry without field
RejectedEarlier(ds) ==
  \E j \in 1..(FirstBareComparison(ds) - 1) :
    \/ ds[j].type \in {"skip", "limit"} /\ ds[j].value \in {Null, Undefined}
    \/ /\ ds[j].type = "sort"
       /\ \E k \in DOMAIN ds[j].value : ds[j].value[k].field \in {Null, Undefined}

\* C9 as stated: an interpret() whose directive sequence holds a bare
\* comparison at the root, at any position, throws a QueryError that names
\* the type of a bare comparison, without reaching build() or returning a
\* pair.
C9_BareComparisonNamed ==
  (last.op = "interpret" /\ HasBareComparison(last.input.directives)) =>
    /\ last.status = "QueryError"
    /\ \E i \in DOMAIN last.input.directives :
         /\ last.input.directives[i].type \in DocumentedComparisons
         /\ last.named = last.input.directives[i].type
    /\ ~last.built
    /\ last.query = <<>> /\ last.values = <<>>

\* C9 amended: an interpret() whose directive sequence holds a bare
\* comparison at the root throws without reaching build() or returning a
\* pair; the error is a QueryError naming the type of the first bare
\* comparison unless a directive before it is itself rejected.
C9_FirstBareComparisonNamed ==
  (last.op = "interpret" /\ HasBareComparison(last.input.directives)) =>
    LET ds == last.input.directives
    IN /\ last.status # "ok"
       /\ ~last.built
       /\ last.query = <<>> /\ last.values = <<>>
       /\ ~RejectedEarlier(ds) =>
            /\ last.status = "QueryError"
            /\ last.named = ds[FirstBareComparison(ds)].type

\* interpret() threw on a bare in that follows a sort it had already recorded
C9_Witness ==
  /\ last.op = "interpret"
  /\ HasBareComparison(last.input.directives)
  /\ FirstBareComparison(last.input.directives) > 1
  /\ last.named = "in"
  /\ \E i \in DOMAIN query : query[i].type = "sort"

====
